---- MODULE Spec2Model ----
(***************************************************************************)
(* HelloTriangle-DX12: the main() of the variant with the render loop      *)
(* (src/unnamed/part_000), modelled as one CPU thread walking through      *)
(* main() and one GPU consuming the direct command queue in FIFO order.    *)
(***************************************************************************)
EXTENDS Integers, Sequences, FiniteSets, TLC

\* ---------------------------------------------------------------- bounds
MaxAdapters == 2      \* longest adapter enumeration explored
MaxFrames == 3        \* iterations of the frame loop before the window closes
MaxPayload == 1024     \* largest payload size the alignment is checked on
MaxFileLen == 3        \* longest shader file read_file is checked on
MaxExamined == 2      \* the per-adapter examination counter saturates here

\* ------------------------------------------------------ program constants
backbuffer_count == 2

Slots == 0 .. (backbuffer_count - 1)
NoDevice == 0         \* ID3D12Device* device = nullptr

AdapterKinds == {"software", "incapable", "capable"}

VARIABLES
    pc,               \* position of the CPU thread in main()
    adapters,         \* the factory's adapter enumeration (environment)
    adapter_index,    \* UINT adapter_index
    device,           \* 0 = nullptr, k = device created on adapter k-1
    examined,         \* how often each adapter index was examined (saturating)
    objects,          \* GPU objects created so far
    creation_failed,  \* first creation call that reported failure, or "none"
    swapchain,        \* "null", "valid" or "garbage" (uninitialised pointer)
    back_buffer,      \* the index the swapchain reports as current back buffer
    frame_index,      \* UINT frame_index
    root_signature,   \* "null" or "valid"
    pipeline_state,   \* "uninit" or "valid"
    vs_size, ps_size, \* lengths returned by read_file
    command_list,     \* [state, cmds]: the single reused command list
    fences,           \* completed value of fences[i]
    fence_values,     \* UINT64 fence_values[backbuffer_count]
    fence_event,      \* the auto-reset event: TRUE = signalled
    event_waits,      \* pending SetEventOnCompletion registrations
    gpu_queue,        \* work handed to the command queue, not yet retired
    image_state,      \* resource state of render_targets[i] on the GPU timeline
    gpu_garbage,      \* the GPU consumed a command list whose memory was reset
    signalled,        \* per slot, the values passed to command_queue->Signal
    frames,           \* iterations of the frame loop started
    diag,             \* diagnostics printed so far
    failed_call,      \* first device call of the frame loop that failed, or "none"
    window_should_close, \* the window's close flag (glfwWindowShouldClose)
    vertex_buffer,    \* << Width, bytes, bytes copied, source >> of the resource
    index_buffer,
    const_buffer,
    const_buffer_view_desc, \* SizeInBytes of the constant buffer view, 0 before
    vs_data, ps_data, \* buffers returned by read_file
    render_target_views \* the RTV heap: descriptor k (1-based) -> swap image, -1 unwritten

vars == << pc, adapters, adapter_index, device, examined, objects,
           creation_failed, swapchain, back_buffer, frame_index,
           root_signature, pipeline_state, vs_size, ps_size, command_list,
           fences, fence_values, fence_event, event_waits, gpu_queue,
           image_state, gpu_garbage, signalled, frames, diag, failed_call,
           window_should_close, vertex_buffer, index_buffer, const_buffer,
           vs_data, ps_data, render_target_views, const_buffer_view_desc >>

setup_vars == << swapchain, back_buffer, frame_index, root_signature,
                 pipeline_state, vs_size, ps_size, diag >>

device_vars == << adapters, adapter_index, device, examined >>

loop_vars == << command_list, fences, fence_values, fence_event, event_waits,
                gpu_queue, image_state, gpu_garbage, signalled, frames >>

buffer_vars == << vertex_buffer, index_buffer, const_buffer,
                 const_buffer_view_desc >>

window_vars == << failed_call, window_should_close >>

rtv_vars == << render_target_views >>

shader_data_vars == << vs_data, ps_data >>

\* ---------------------------------------------------------------- helpers
Min(a, b) == IF a < b THEN a ELSE b

\* All adapter enumerations of length 0 .. n
AdapterLists(n) == UNION { [1 .. k -> AdapterKinds] : k \in 0 .. n }

\* 1-based position of the first non-software adapter on which
\* D3D12CreateDevice at feature level 12_0 succeeds, 0 if there is none
FirstCapable(list) ==
    IF \E k \in DOMAIN list : list[k] = "capable"
    THEN CHOOSE k \in DOMAIN list :
            /\ list[k] = "capable"
            /\ \A j \in 1 .. (k - 1) : list[j] # "capable"
    ELSE 0

\* A throw_if_failed that let main() go on after a failed call
throw_if_failed_ignoring(ok, next) == next

\* throw_if_failed: an uncaught std::exception ends the process
throw_if_failed(ok, next) == IF ok THEN next ELSE "aborted"

\* A char* that is nullptr, and one that points to a buffer holding bytes
NullData == << "nullptr", << >> >>

Buffer(bytes) == << "buffer", bytes >>

\* A resource handle before CreateCommittedResource
NoResource == << 0, << >>, 0, "" >>

Init ==
    /\ pc = "enum_adapters"
    /\ adapters \in AdapterLists(MaxAdapters)
    /\ adapter_index = 0
    /\ device = NoDevice
    /\ examined = [k \in 1 .. Len(adapters) |-> 0]
    /\ objects = {}
    /\ creation_failed = "none"
    /\ swapchain = "null"
    /\ back_buffer = 0
    /\ frame_index = 0          \* indeterminate until line 222; not read before
    /\ root_signature = "null"
    /\ pipeline_state = "uninit"
    /\ vs_size = 0
    /\ ps_size = 0
    /\ command_list = [cmds |-> << >>, state |-> "none"]
    /\ fences = [i \in Slots |-> 0]
    /\ fence_values = [i \in Slots |-> 0]
    /\ fence_event = FALSE
    /\ event_waits = {}
    /\ gpu_queue = << >>
    /\ image_state = [i \in Slots |-> "PRESENT"]
    /\ gpu_garbage = FALSE
    /\ signalled = [i \in Slots |-> << >>]
    /\ frames = 0
    /\ diag = {}
    /\ failed_call = "none"
    /\ window_should_close = FALSE
    /\ vertex_buffer = NoResource
    /\ index_buffer = NoResource
    /\ const_buffer = NoResource
    /\ render_target_views = << >>
    /\ const_buffer_view_desc = 0
    /\ vs_data = NullData
    /\ ps_data = NullData

\* ------------------------------------------------------- device selection
\* while (factory->EnumAdapters1(adapter_index, &adapter) != DXGI_ERROR_NOT_FOUND)
EnumAdapters1 ==
    /\ pc = "enum_adapters"
    /\ pc' = IF adapter_index + 1 > Len(adapters)
             THEN "check_device"      \* DXGI_ERROR_NOT_FOUND
             ELSE "examine_adapter"
    /\ UNCHANGED << objects, creation_failed >>
    /\ UNCHANGED device_vars
    /\ UNCHANGED rtv_vars
    /\ UNCHANGED shader_data_vars
    /\ UNCHANGED window_vars
    /\ UNCHANGED buffer_vars
    /\ UNCHANGED setup_vars
    /\ UNCHANGED loop_vars

\* Where the loop goes on after an adapter flagged as software: `continue`
\* re-evaluates the condition with adapter_index as it is.
AfterSoftwareAdapter(index) == index

\* The loop body: GetDesc1, the software test, D3D12CreateDevice
ExamineAdapter ==
    /\ pc = "examine_adapter"
    /\ LET k == adapter_index + 1 IN
       /\ examined' = [examined EXCEPT ![k] = Min(@ + 1, MaxExamined)]
       /\ IF adapters[k] = "software"
          THEN /\ pc' = "enum_adapters"
               /\ adapter_index' = AfterSoftwareAdapter(adapter_index)
               /\ UNCHANGED << device, objects >>
          ELSE IF adapters[k] = "capable"
          THEN \* D3D12CreateDevice succeeded: break
               /\ device' = k
               /\ objects' = objects \cup {"device"}
               /\ pc' = "check_device"
               /\ UNCHANGED adapter_index
          ELSE \* device = nullptr; adapter->Release(); adapter_index++
               /\ device' = NoDevice
               /\ adapter_index' = adapter_index + 1
               /\ pc' = "enum_adapters"
               /\ UNCHANGED objects
    /\ UNCHANGED << adapters, creation_failed >>
    /\ UNCHANGED window_vars
    /\ UNCHANGED buffer_vars
    /\ UNCHANGED rtv_vars
    /\ UNCHANGED shader_data_vars
    /\ UNCHANGED setup_vars
    /\ UNCHANGED loop_vars

\* if (device == nullptr) throw std::exception();
CheckDevice ==
    /\ pc = "check_device"
    /\ pc' = throw_if_failed(device # NoDevice, "create_queue")
    /\ UNCHANGED << objects, creation_failed >>
    /\ UNCHANGED device_vars
    /\ UNCHANGED rtv_vars
    /\ UNCHANGED shader_data_vars
    /\ UNCHANGED window_vars
    /\ UNCHANGED buffer_vars
    /\ UNCHANGED setup_vars
    /\ UNCHANGED loop_vars

\* ------------------------------------------- command submission context
\* throw_if_failed(device->CreateCommandQueue(...))
CreateCommandQueue ==
    /\ pc = "create_queue"
    /\ \E ok \in BOOLEAN :
        /\ pc' = throw_if_failed(ok, "create_allocator")
        /\ objects' = IF ok THEN objects \cup {"command_queue"} ELSE objects
    /\ UNCHANGED creation_failed
    /\ UNCHANGED device_vars
    /\ UNCHANGED rtv_vars
    /\ UNCHANGED shader_data_vars
    /\ UNCHANGED window_vars
    /\ UNCHANGED buffer_vars
    /\ UNCHANGED setup_vars
    /\ UNCHANGED loop_vars

\* throw_if_failed(device->CreateCommandAllocator(...))
CreateCommandAllocator ==
    /\ pc = "create_allocator"
    /\ \E ok \in BOOLEAN :
        /\ pc' = throw_if_failed(ok, "create_fences")
        /\ objects' = IF ok THEN objects \cup {"command_allocator"} ELSE objects
    /\ UNCHANGED creation_failed
    /\ UNCHANGED device_vars
    /\ UNCHANGED rtv_vars
    /\ UNCHANGED shader_data_vars
    /\ UNCHANGED window_vars
    /\ UNCHANGED buffer_vars
    /\ UNCHANGED setup_vars
    /\ UNCHANGED loop_vars

\* CreateEvent, then CreateFence(0, ...) and fence_values[i] = 0 for each slot
CreateFences ==
    /\ pc = "create_fences"
    /\ \E ok \in BOOLEAN :
        /\ pc' = throw_if_failed(ok, "create_swapchain")
        /\ objects' = IF ok THEN objects \cup {"fence_event", "fences"}
                            ELSE objects \cup {"fence_event"}
    /\ fences' = [i \in Slots |-> 0]
    /\ fence_values' = [i \in Slots |-> 0]
    /\ fence_event' = FALSE
    /\ UNCHANGED creation_failed
    /\ UNCHANGED device_vars
    /\ UNCHANGED rtv_vars
    /\ UNCHANGED shader_data_vars
    /\ UNCHANGED window_vars
    /\ UNCHANGED buffer_vars
    /\ UNCHANGED setup_vars
    /\ UNCHANGED << command_list, event_waits, gpu_queue, image_state,
                    gpu_garbage, signalled, frames >>

\* ---------------------------------------------------- presentation surface
\* CreateSwapChainForHwnd (result not checked), QueryInterface to
\* IDXGISwapChain3, if (!swapchain) throw.  When creation failed,
\* new_swapchain is an uninitialised pointer and the QueryInterface call
\* through it is undefined: it crashes, reports failure, or "succeeds".
CreateSwapchain ==
    /\ pc = "create_swapchain"
    /\ \E outcome \in {"ok", "upgrade_failed", "create_failed"} :
        \/ /\ outcome = "ok"
           /\ swapchain' = "valid"
           /\ objects' = objects \cup {"swapchain"}
           /\ \E b \in Slots : back_buffer' = b
           /\ pc' = "get_index"
        \/ /\ outcome = "upgrade_failed"
           /\ pc' = "aborted"
           /\ UNCHANGED << swapchain, objects, back_buffer >>
        \/ /\ outcome = "create_failed"
           /\ \/ /\ pc' = "aborted"
                 /\ UNCHANGED swapchain
              \/ /\ pc' = "get_index"
                 /\ swapchain' = "garbage"
           /\ UNCHANGED << objects, back_buffer >>
    /\ UNCHANGED creation_failed
    /\ UNCHANGED device_vars
    /\ UNCHANGED rtv_vars
    /\ UNCHANGED shader_data_vars
    /\ UNCHANGED window_vars
    /\ UNCHANGED buffer_vars
    /\ UNCHANGED << frame_index, root_signature, pipeline_state, vs_size,
                    ps_size, diag >>
    /\ UNCHANGED loop_vars

\* frame_index = swapchain->GetCurrentBackBufferIndex();
GetCurrentBackBufferIndex ==
    /\ pc = "get_index"
    /\ \/ /\ swapchain = "valid"
          /\ frame_index' = back_buffer
          /\ pc' = "create_rtv_heap"
       \/ /\ swapchain = "garbage"
          /\ \/ pc' = "aborted" /\ UNCHANGED frame_index
             \/ pc' = "create_rtv_heap" /\ \E b \in Slots : frame_index' = b
    /\ UNCHANGED << objects, creation_failed >>
    /\ UNCHANGED device_vars
    /\ UNCHANGED rtv_vars
    /\ UNCHANGED shader_data_vars
    /\ UNCHANGED window_vars
    /\ UNCHANGED buffer_vars
    /\ UNCHANGED << swapchain, back_buffer, root_signature, pipeline_state,
                    vs_size, ps_size, diag >>
    /\ UNCHANGED loop_vars

\* A creation call wrapped in throw_if_failed: the object exists afterwards
\* or the process has aborted at the call.
Create(at, name, next) ==
    /\ pc = at
    /\ \E ok \in BOOLEAN :
        /\ pc' = throw_if_failed(ok, next)
        /\ objects' = IF ok THEN objects \cup {name} ELSE objects
        /\ creation_failed' = IF ok \/ creation_failed # "none"
                              THEN creation_failed ELSE name
    /\ UNCHANGED device_vars
    /\ UNCHANGED rtv_vars
    /\ UNCHANGED shader_data_vars
    /\ UNCHANGED window_vars
    /\ UNCHANGED buffer_vars
    /\ UNCHANGED setup_vars
    /\ UNCHANGED loop_vars

\* render_target_view_heap_desc.NumDescriptors = backbuffer_count
NumDescriptors == backbuffer_count

\* throw_if_failed(device->CreateDescriptorHeap(&render_target_view_heap_desc, ...))
\* The new heap holds NumDescriptors descriptors, none written yet.
CreateRtvHeap ==
    /\ pc = "create_rtv_heap"
    /\ \E ok \in BOOLEAN :
        /\ pc' = throw_if_failed(ok, "create_rtvs")
        /\ objects' = IF ok THEN objects \cup {"render_target_view_heap"} ELSE objects
        /\ creation_failed' = IF ok \/ creation_failed # "none"
                              THEN creation_failed ELSE "render_target_view_heap"
        /\ render_target_views' = IF ok THEN [k \in 1 .. NumDescriptors |-> -1]
                                        ELSE render_target_views
    /\ UNCHANGED device_vars
    /\ UNCHANGED shader_data_vars
    /\ UNCHANGED window_vars
    /\ UNCHANGED buffer_vars
    /\ UNCHANGED setup_vars
    /\ UNCHANGED loop_vars

RECURSIVE CreateRenderTargetViews(_, _, _)
\* for (i = 0; i < backbuffer_count; i++) { CreateRenderTargetView(
\* render_targets[i], nullptr, handle); handle.ptr += descriptor size; }
\* handle counts descriptors from the heap start; a write past the heap's
\* end lands outside the heap and leaves it as it is.
CreateRenderTargetViews(heap, i, handle) ==
    IF i >= backbuffer_count THEN heap
    ELSE CreateRenderTargetViews(
             IF handle + 1 \in DOMAIN heap THEN [heap EXCEPT ![handle + 1] = i]
                                           ELSE heap,
             i + 1, handle + 1)

\* for each i: throw_if_failed(swapchain->GetBuffer(i, ...)); CreateRenderTargetView
\* A swapchain that was never created cannot hand out buffers.
CreateRtvs ==
    /\ pc = "create_rtvs"
    /\ \E ok \in BOOLEAN :
        LET good == ok /\ swapchain = "valid" IN
        /\ pc' = throw_if_failed(good, "root_signature")
        /\ objects' = IF good THEN objects \cup {"render_targets"} ELSE objects
        /\ render_target_views' =
               IF good THEN CreateRenderTargetViews(render_target_views, 0, 0)
                       ELSE render_target_views
    /\ image_state' = [i \in Slots |-> "PRESENT"]
    /\ UNCHANGED creation_failed
    /\ UNCHANGED device_vars
    /\ UNCHANGED shader_data_vars
    /\ UNCHANGED window_vars
    /\ UNCHANGED buffer_vars
    /\ UNCHANGED setup_vars
    /\ UNCHANGED << command_list, fences, fence_values, fence_event,
                    event_waits, gpu_queue, gpu_garbage, signalled, frames >>

\* ------------------------------------------------------- root signature
\* try { Serialize; CreateRootSignature } catch (...) { print; continue }
\* The catch block swallows the exception.  After a failed Serialize the
\* 'signature' pointer is uninitialised, after a failed CreateRootSignature
\* the 'error' blob is null: the code dereferences either one, which
\* crashes or goes on.
CreateRootSignature ==
    /\ pc = "root_signature"
    /\ \E outcome \in {"ok", "serialize_failed", "create_failed"} :
        \/ /\ outcome = "ok"
           /\ root_signature' = "valid"
           /\ objects' = objects \cup {"root_signature"}
           /\ pc' = "upload_vertex"
           /\ UNCHANGED << creation_failed, diag >>
        \/ /\ outcome # "ok"
           /\ root_signature' = "null"
           /\ creation_failed' = IF creation_failed = "none"
                                 THEN "root_signature" ELSE creation_failed
           /\ \/ pc' = "aborted" /\ UNCHANGED diag
              \/ pc' = "upload_vertex" /\ diag' = diag \cup {"root signature error"}
           /\ UNCHANGED objects
    /\ UNCHANGED device_vars
    /\ UNCHANGED rtv_vars
    /\ UNCHANGED shader_data_vars
    /\ UNCHANGED window_vars
    /\ UNCHANGED buffer_vars
    /\ UNCHANGED << swapchain, back_buffer, frame_index, pipeline_state,
                    vs_size, ps_size >>
    /\ UNCHANGED loop_vars

\* ------------------------------------------------ static resource uploads
\* Bytes of a float (IEEE-754 single, little endian); the value is given in
\* halves: -1 is -0.5f, 0 is 0.f, 1 is +0.5f, 2 is 1.f
float_bytes(halves) ==
    CASE halves = -1 -> << 0, 0, 0, 191 >>
      [] halves = 0  -> << 0, 0, 0, 0 >>
      [] halves = 1  -> << 0, 0, 0, 63 >>
      [] halves = 2  -> << 0, 0, 128, 63 >>

\* Bytes of a glm::vec3
vec3_bytes(x, y, z) == float_bytes(x) \o float_bytes(y) \o float_bytes(z)

\* Bytes of a uint32_t (little endian)
uint32_bytes(n) ==
    << n % 256, (n \div 256) % 256, (n \div 65536) % 256, (n \div 16777216) % 256 >>

\* Vertex triangle_verts[] = { {pos, color}, ... }
triangle_verts ==
    vec3_bytes(1, -1, 0) \o vec3_bytes(2, 0, 0) \o
    vec3_bytes(-1, -1, 0) \o vec3_bytes(0, 2, 0) \o
    vec3_bytes(0, 1, 0) \o vec3_bytes(0, 0, 2)

\* uint32_t triangle_indices[] = { 0, 1, 2 }
triangle_indices == uint32_bytes(0) \o uint32_bytes(1) \o uint32_bytes(2)

\* sizeof(const_buffer_data_struct): one glm::vec3
sizeof_const_buffer_data_struct == 12

\* The size as the round-up idiom (size + 255) & ~255 would compute it
AlignedSizeRoundUp(size) == ((size + 255) \div 256) * 256

\* (size | 0xFF) + 1
AlignedSize(size) == (size - (size % 256) + 255) + 1

\* Fields of a resource
Width(resource) == resource[1]
Contents(resource) == resource[2]
BytesCopied(resource) == resource[3]
CopiedFrom(resource) == resource[4]

\* CreateCommittedResource in an upload heap with D3D12_HEAP_FLAG_NONE: a
\* zero-filled buffer of the Width given in the description
CreateCommittedResource(width) == << width, [k \in 1 .. width |-> 0], 0, "" >>

\* memcpy_s(dest, destsz, src, count): copies count bytes; when count exceeds
\* destsz it copies nothing and zeroes the destination
memcpy_s(dest, destsz, src, count) ==
    IF count > destsz
    THEN [k \in DOMAIN dest |-> IF k <= destsz THEN 0 ELSE dest[k]]
    ELSE [k \in DOMAIN dest |-> IF k <= count THEN src[k] ELSE dest[k]]

\* Map, memcpy_s(begin, count, src, count), Unmap on a fresh resource
StagedUpload(width, src, src_name, count) ==
    << width,
       memcpy_s(Contents(CreateCommittedResource(width)), count, src, count),
       count, src_name >>

\* CreateCommittedResource and Map, each under throw_if_failed, then memcpy_s
Upload(at, name, next, buffer, width, src, src_name, count) ==
    /\ pc = at
    /\ \E created, mapped \in BOOLEAN :
        /\ pc' = throw_if_failed(created /\ mapped, next)
        /\ objects' = IF created THEN objects \cup {name} ELSE objects
        /\ creation_failed' = IF (created /\ mapped) \/ creation_failed # "none"
                              THEN creation_failed ELSE name
        /\ buffer' = IF ~created THEN buffer
                     ELSE IF ~mapped THEN CreateCommittedResource(width)
                     ELSE StagedUpload(width, src, src_name, count)
    /\ UNCHANGED device_vars
    /\ UNCHANGED rtv_vars
    /\ UNCHANGED shader_data_vars
    /\ UNCHANGED window_vars
    /\ UNCHANGED setup_vars
    /\ UNCHANGED loop_vars

\* Width sizeof(triangle_verts); memcpy_s(..., sizeof(triangle_verts), triangle_verts, ...)
UploadVertexBuffer ==
    /\ Upload("upload_vertex", "vertex_buffer", "upload_index", vertex_buffer,
              Len(triangle_verts), triangle_verts, "triangle_verts",
              Len(triangle_verts))
    /\ UNCHANGED << index_buffer, const_buffer, const_buffer_view_desc >>

\* Width sizeof(triangle_indices); memcpy_s(..., triangle_indices, sizeof(triangle_indices))
UploadIndexBuffer ==
    /\ Upload("upload_index", "index_buffer", "create_const_heap", index_buffer,
              Len(triangle_indices), triangle_indices, "triangle_indices",
              Len(triangle_indices))
    /\ UNCHANGED << vertex_buffer, const_buffer, const_buffer_view_desc >>

\* throw_if_failed(device->CreateDescriptorHeap(&heap_desc, ...const_buffer_heap))
CreateConstBufferHeap == Create("create_const_heap", "const_buffer_heap", "upload_const")

\* Width (sizeof(const_buffer_data_struct) | 0xFF) + 1;
\* memcpy_s(const_data_begin, sizeof(triangle_indices), triangle_indices,
\*          sizeof(triangle_indices))
UploadConstBuffer ==
    /\ Upload("upload_const", "const_buffer", "read_vs", const_buffer,
              AlignedSize(sizeof_const_buffer_data_struct), triangle_indices,
              "triangle_indices", Len(triangle_indices))
    /\ const_buffer_view_desc' =
            IF "const_buffer" \in objects'
            THEN AlignedSize(sizeof_const_buffer_data_struct)
            ELSE const_buffer_view_desc
    /\ UNCHANGED << vertex_buffer, index_buffer >>

\* ---------------------------------------------------------------- shaders
\* A shader file on disk: absent, or present with some bytes.
ShaderFiles == { << FALSE, << >> >>, << TRUE, << >> >>, << TRUE, << 68 >> >> }

FileExists(file) == file[1]

FileBytes(file) == file[2]

\* memcpy(dest, src, count)
memcpy(dest, src, count) ==
    [k \in DOMAIN dest |-> IF k <= count THEN src[k] ELSE dest[k]]

\* A read_file without the test for an empty buffer
read_file_without_empty_test(file) ==
    IF ~FileExists(file)
    THEN [data |-> NullData, printed |-> TRUE, size_bytes |-> 0]
    ELSE LET size == Len(FileBytes(file))
             allocated == [k \in 1 .. size |-> 0]
             buffer == FileBytes(file)
         IN [data |-> Buffer(memcpy(allocated, buffer, size)), printed |-> FALSE,
             size_bytes |-> size]

\* read_file(path, size_bytes, data, silent = false): size is end - begin,
\* data is malloc(size), buffer is the stream's content; an empty buffer is
\* reported like a file that cannot be opened
read_file(file) ==
    IF ~FileExists(file)
    THEN [data |-> NullData, printed |-> TRUE, size_bytes |-> 0]
    ELSE LET size == Len(FileBytes(file))
             allocated == [k \in 1 .. size |-> 0]
             buffer == FileBytes(file)
         IN IF buffer = << >>
            THEN [data |-> NullData, printed |-> TRUE, size_bytes |-> 0]
            ELSE [data |-> Buffer(memcpy(allocated, buffer, size)),
                  printed |-> FALSE, size_bytes |-> size]

\* read_file(vs_path, vs_size, vs_data, false);
ReadVertexShader ==
    /\ pc = "read_vs"
    /\ \E file \in ShaderFiles :
        LET r == read_file(file) IN
        /\ vs_size' = r.size_bytes
        /\ vs_data' = r.data
        /\ diag' = IF r.printed THEN diag \cup {"Failed to open file"} ELSE diag
        /\ pc' = "read_ps"
    /\ UNCHANGED << objects, creation_failed >>
    /\ UNCHANGED device_vars
    /\ UNCHANGED rtv_vars
    /\ UNCHANGED ps_data
    /\ UNCHANGED window_vars
    /\ UNCHANGED buffer_vars
    /\ UNCHANGED << swapchain, back_buffer, frame_index, root_signature,
                    pipeline_state, ps_size >>
    /\ UNCHANGED loop_vars

\* read_file(ps_path, ps_size, ps_data, false);
ReadPixelShader ==
    /\ pc = "read_ps"
    /\ \E file \in ShaderFiles :
        LET r == read_file(file) IN
        /\ ps_size' = r.size_bytes
        /\ ps_data' = r.data
        /\ diag' = IF r.printed THEN diag \cup {"Failed to open file"} ELSE diag
        /\ pc' = "create_pso"
    /\ UNCHANGED << objects, creation_failed >>
    /\ UNCHANGED device_vars
    /\ UNCHANGED rtv_vars
    /\ UNCHANGED vs_data
    /\ UNCHANGED window_vars
    /\ UNCHANGED buffer_vars
    /\ UNCHANGED << swapchain, back_buffer, frame_index, root_signature,
                    pipeline_state, vs_size >>
    /\ UNCHANGED loop_vars

\* ---------------------------------------------------------- pipeline state
\* The device builds a pipeline only from a non-empty vertex stage and a
\* root signature; it may refuse for any other reason as well.
PipelineCanBeBuilt == vs_size > 0 /\ root_signature = "valid"

\* Where main() continues after CreateGraphicsPipelineState reported failure:
\* the catch block prints and falls through.
AfterPipelineFailure == "create_command_list"

\* try { throw_if_failed(CreateGraphicsPipelineState) } catch (...) { puts }
CreateGraphicsPipelineState ==
    /\ pc = "create_pso"
    /\ \E ok \in BOOLEAN :
        IF ok /\ PipelineCanBeBuilt
        THEN /\ pipeline_state' = "valid"
             /\ objects' = objects \cup {"pipeline_state"}
             /\ pc' = "create_command_list"
             /\ UNCHANGED << creation_failed, diag >>
        ELSE /\ creation_failed' = IF creation_failed = "none"
                                   THEN "pipeline_state" ELSE creation_failed
             /\ diag' = diag \cup {"Failed to create Graphics Pipeline"}
             /\ pc' = AfterPipelineFailure
             /\ UNCHANGED << pipeline_state, objects >>
    /\ UNCHANGED device_vars
    /\ UNCHANGED rtv_vars
    /\ UNCHANGED shader_data_vars
    /\ UNCHANGED window_vars
    /\ UNCHANGED buffer_vars
    /\ UNCHANGED << swapchain, back_buffer, frame_index, root_signature,
                    vs_size, ps_size >>
    /\ UNCHANGED loop_vars

\* throw_if_failed(device->CreateCommandList(..., pipeline_state, ...))
\* The list is created open.  With pipeline_state uninitialised the call
\* reads an indeterminate pointer: it crashes, fails, or succeeds.
CreateCommandList ==
    /\ pc = "create_command_list"
    /\ \E ok \in BOOLEAN :
        /\ pc' = throw_if_failed(ok, "loop_cond")
        /\ objects' = IF ok THEN objects \cup {"command_list"} ELSE objects
        /\ command_list' = IF ok THEN [command_list EXCEPT !.cmds = << >>, !.state = "open"]
                                 ELSE command_list
    /\ UNCHANGED creation_failed
    /\ UNCHANGED device_vars
    /\ UNCHANGED rtv_vars
    /\ UNCHANGED shader_data_vars
    /\ UNCHANGED window_vars
    /\ UNCHANGED buffer_vars
    /\ UNCHANGED setup_vars
    /\ UNCHANGED << fences, fence_values, fence_event, event_waits, gpu_queue,
                    image_state, gpu_garbage, signalled, frames >>

\* ------------------------------------------------------------ frame loop
\* A recorded command; target is the swap image it names, -1 if none.
Cmd(name, target, before, after) == << name, target, before, after >>

CmdName(c) == c[1]

CmdTarget(c) == c[2]

CmdBefore(c) == c[3]

CmdAfter(c) == c[4]

Plain(name) == Cmd(name, -1, "", "")

\* A recorded command with scalar arguments
WithArgs(name, args) == << name, -1, "", "", args >>

CmdArgs(c) == IF Len(c) >= 5 THEN c[5] ELSE << >>

\* render_target_barrier: PRESENT -> RENDER_TARGET on render_targets[fi]
render_target_barrier(fi) == Cmd("ResourceBarrier", fi, "PRESENT", "RENDER_TARGET")

\* present_barrier as it would read if it named the other swap image
present_barrier_other_image(fi) ==
    Cmd("ResourceBarrier", (fi + 1) % backbuffer_count, "RENDER_TARGET", "PRESENT")

\* present_barrier: RENDER_TARGET -> PRESENT on render_targets[fi]
present_barrier(fi) == Cmd("ResourceBarrier", fi, "RENDER_TARGET", "PRESENT")

\* A recorded command that names a render-target descriptor: target is the
\* swap image the descriptor describes
OnDescriptor(name, handle) ==
    << name, render_target_views[handle + 1], "", "", << handle >> >>

\* The handle of a loop that always used the descriptor at the heap start
render_target_view_handle_heap_start(fi) == 0

\* render_target_view_handle: heap start + fi * descriptor size, counted in
\* descriptors
render_target_view_handle(fi) == fi

\* OMSetRenderTargets .. IASetIndexBuffer
raster_commands(fi) ==
    << OnDescriptor("OMSetRenderTargets", render_target_view_handle(fi)),
       Plain("RSSetViewports"),
       Plain("RSSetScissorRects"),
       OnDescriptor("ClearRenderTargetView", render_target_view_handle(fi)),
       WithArgs("IASetPrimitiveTopology", << "D3D_PRIMITIVE_TOPOLOGY_TRIANGLELIST" >>),
       Plain("IASetVertexBuffers"),
       Plain("IASetIndexBuffer") >>

\* The live objects as a loop that built a descriptor heap for each frame
\* would leave them
ObjectsAfterRecordingPerFrameHeap(live, new_cmds) ==
    live \cup { << "descriptor_heap", frames >> }

\* The live objects after commands were recorded: recording creates and
\* releases nothing
ObjectsAfterRecording(live, new_cmds) == live

\* The constant buffer as a loop that wrote color_mul.x each frame would
\* leave it
ConstBufferAfterRecordingAnimated(resource, new_cmds) ==
    << Width(resource),
       memcpy_s(Contents(resource), 4, float_bytes(2), 4),
       4, "const_buffer_data_struct" >>

\* The constant buffer after commands were recorded: the loop neither maps
\* nor writes it
ConstBufferAfterRecording(resource, new_cmds) == resource

\* command_list-><command>(...): the commands are appended to the open list
Record(at, next, new_cmds) ==
    /\ pc = at
    /\ pc' = next
    /\ command_list' = [command_list EXCEPT !.cmds = @ \o new_cmds]
    /\ objects' = ObjectsAfterRecording(objects, new_cmds)
    /\ const_buffer' = ConstBufferAfterRecording(const_buffer, new_cmds)
    /\ UNCHANGED << creation_failed, vertex_buffer, index_buffer,
                    const_buffer_view_desc >>
    /\ UNCHANGED device_vars
    /\ UNCHANGED rtv_vars
    /\ UNCHANGED shader_data_vars
    /\ UNCHANGED window_vars
    /\ UNCHANGED setup_vars
    /\ UNCHANGED << fences, fence_values, fence_event, event_waits, gpu_queue,
                    image_state, gpu_garbage, signalled, frames >>

\* while (!glfwWindowShouldClose(window))
\* The loop condition of a loop that ignores the close flag
NeverLeavesLoop(should_close) == FALSE

\* The loop condition: leave when glfwWindowShouldClose(window) is true
LeavesLoop(should_close) == should_close

\* The first failing device call of the loop is remembered
FirstFailure(ok, call) ==
    IF ok \/ failed_call # "none" THEN failed_call ELSE call

LoopCondition ==
    /\ pc = "loop_cond"
    /\ IF LeavesLoop(window_should_close)
       THEN pc' = "done" /\ UNCHANGED frames
       ELSE pc' = "record_bind" /\ frames' = frames + 1
    /\ UNCHANGED << objects, creation_failed >>
    /\ UNCHANGED device_vars
    /\ UNCHANGED rtv_vars
    /\ UNCHANGED shader_data_vars
    /\ UNCHANGED window_vars
    /\ UNCHANGED buffer_vars
    /\ UNCHANGED setup_vars
    /\ UNCHANGED << command_list, fences, fence_values, fence_event,
                    event_waits, gpu_queue, image_state, gpu_garbage, signalled >>

\* SetGraphicsRootSignature, SetDescriptorHeaps, SetGraphicsRootDescriptorTable
RecordBindings ==
    Record("record_bind", "record_rt_barrier",
           << Plain("SetGraphicsRootSignature"), Plain("SetDescriptorHeaps"),
              Plain("SetGraphicsRootDescriptorTable") >>)

RecordRenderTargetBarrier ==
    Record("record_rt_barrier", "record_raster", << render_target_barrier(frame_index) >>)

RecordRasterCommands ==
    Record("record_raster", "record_draw", raster_commands(frame_index))

DrawIndexedInstanced(index_count, instance_count, start_index, base_vertex, start_instance) ==
    WithArgs("DrawIndexedInstanced",
             << index_count, instance_count, start_index, base_vertex, start_instance >>)

\* The draw as it would read if it were issued once per instance
draw_per_instance == << DrawIndexedInstanced(3, 1, 0, 0, 0),
                        DrawIndexedInstanced(3, 1, 0, 0, 0) >>

\* command_list->DrawIndexedInstanced(3, 1, 0, 0, 0);
draw_commands == << DrawIndexedInstanced(3, 1, 0, 0, 0) >>

RecordDraw ==
    Record("record_draw", "record_present_barrier", draw_commands)

RecordPresentBarrier ==
    Record("record_present_barrier", "close", << present_barrier(frame_index) >>)

\* throw_if_failed(command_list->Close());
CloseCommandList ==
    /\ pc = "close"
    /\ \E ok \in BOOLEAN :
        /\ pc' = throw_if_failed(ok, "execute")
        /\ failed_call' = FirstFailure(ok, "Close")
        /\ command_list' = IF ok THEN [command_list EXCEPT !.state = "closed"]
                                 ELSE command_list
    /\ UNCHANGED << objects, creation_failed, window_should_close >>
    /\ UNCHANGED device_vars
    /\ UNCHANGED rtv_vars
    /\ UNCHANGED shader_data_vars
    /\ UNCHANGED buffer_vars
    /\ UNCHANGED setup_vars
    /\ UNCHANGED << fences, fence_values, fence_event, event_waits, gpu_queue,
                    image_state, gpu_garbage, signalled, frames >>

\* An entry of the command queue
QueueItem(op, slot, value, cmds) ==
    [cmds |-> cmds, op |-> op, slot |-> slot, valid |-> TRUE, value |-> value]

\* command_queue->ExecuteCommandLists(1, { command_list });
ExecuteCommandLists ==
    /\ pc = "execute"
    /\ pc' = "present"
    /\ gpu_queue' = Append(gpu_queue,
                           QueueItem("exec", frame_index, 0, command_list.cmds))
    /\ UNCHANGED << objects, creation_failed >>
    /\ UNCHANGED device_vars
    /\ UNCHANGED rtv_vars
    /\ UNCHANGED shader_data_vars
    /\ UNCHANGED window_vars
    /\ UNCHANGED buffer_vars
    /\ UNCHANGED setup_vars
    /\ UNCHANGED << command_list, fences, fence_values, fence_event,
                    event_waits, image_state, gpu_garbage, signalled, frames >>

\* swapchain->Present(1, 0); the result is not checked.  The swapchain
\* queues the flip of its current back buffer and moves on to another one.
Present ==
    /\ pc = "present"
    /\ pc' = "signal"
    /\ \E ok \in BOOLEAN :
        /\ failed_call' = FirstFailure(ok, "Present")
        /\ IF ok
           THEN /\ gpu_queue' = Append(gpu_queue,
                                       QueueItem("present", back_buffer, 0, << >>))
                /\ \E b \in Slots : back_buffer' = b
           ELSE UNCHANGED << gpu_queue, back_buffer >>
    /\ UNCHANGED << objects, creation_failed, window_should_close >>
    /\ UNCHANGED device_vars
    /\ UNCHANGED rtv_vars
    /\ UNCHANGED shader_data_vars
    /\ UNCHANGED buffer_vars
    /\ UNCHANGED << swapchain, frame_index, root_signature, pipeline_state,
                    vs_size, ps_size, diag >>
    /\ UNCHANGED << command_list, fences, fence_values, fence_event,
                    event_waits, image_state, gpu_garbage, signalled, frames >>

\* The value handed to command_queue->Signal for the slot just used
SignalValue(fi) == fence_values[fi]

\* The fence a loop that signalled the other slot's fence would name
SignalledFenceOfOtherSlot(fi) == (fi + 1) % backbuffer_count

\* The fence handed to command_queue->Signal: fences[frame_index]
SignalledFence(fi) == fi

\* throw_if_failed(command_queue->Signal(fences[frame_index], fence_values[frame_index]));
Signal ==
    /\ pc = "signal"
    /\ \E ok \in BOOLEAN :
        /\ pc' = throw_if_failed(ok, "check_fence")
        /\ failed_call' = FirstFailure(ok, "Signal")
        /\ IF ok
           THEN /\ gpu_queue' = Append(gpu_queue,
                        QueueItem("signal", SignalledFence(frame_index),
                                  SignalValue(frame_index), << >>))
                /\ signalled' = [signalled EXCEPT ![SignalledFence(frame_index)] =
                                    Append(@, SignalValue(frame_index))]
           ELSE UNCHANGED << gpu_queue, signalled >>
    /\ UNCHANGED << objects, creation_failed, window_should_close >>
    /\ UNCHANGED device_vars
    /\ UNCHANGED rtv_vars
    /\ UNCHANGED shader_data_vars
    /\ UNCHANGED buffer_vars
    /\ UNCHANGED setup_vars
    /\ UNCHANGED << command_list, fences, fence_values, fence_event,
                    event_waits, image_state, gpu_garbage, frames >>

\* The value a loop that waited for the slot's previous submission would use
AwaitedValuePrevious(fi) == fence_values[fi] - 1

\* The value the fence is compared with and the event is registered for:
\* fence_values[frame_index]
AwaitedValue(fi) == fence_values[fi]

\* if (fences[frame_index]->GetCompletedValue() < fence_values[frame_index])
CheckFence ==
    /\ pc = "check_fence"
    /\ pc' = IF fences[frame_index] < AwaitedValue(frame_index)
             THEN "set_event" ELSE "advance_fence"
    /\ UNCHANGED << objects, creation_failed >>
    /\ UNCHANGED device_vars
    /\ UNCHANGED rtv_vars
    /\ UNCHANGED shader_data_vars
    /\ UNCHANGED window_vars
    /\ UNCHANGED buffer_vars
    /\ UNCHANGED setup_vars
    /\ UNCHANGED loop_vars

\* throw_if_failed(fences[frame_index]->SetEventOnCompletion(value, fence_event));
\* A fence already at the value signals the event at once.
SetEventOnCompletion ==
    /\ pc = "set_event"
    /\ \E ok \in BOOLEAN :
        /\ pc' = throw_if_failed(ok, "wait")
        /\ failed_call' = FirstFailure(ok, "SetEventOnCompletion")
        /\ IF ok
           THEN IF fences[frame_index] >= AwaitedValue(frame_index)
                THEN fence_event' = TRUE /\ UNCHANGED event_waits
                ELSE /\ event_waits' = event_waits \cup
                            {[fence |-> frame_index, value |-> AwaitedValue(frame_index)]}
                     /\ UNCHANGED fence_event
           ELSE UNCHANGED << fence_event, event_waits >>
    /\ UNCHANGED << objects, creation_failed, window_should_close >>
    /\ UNCHANGED device_vars
    /\ UNCHANGED rtv_vars
    /\ UNCHANGED shader_data_vars
    /\ UNCHANGED buffer_vars
    /\ UNCHANGED setup_vars
    /\ UNCHANGED << command_list, fences, fence_values, gpu_queue,
                    image_state, gpu_garbage, signalled, frames >>

\* The event after a wait if it had been created as a manual-reset event
EventAfterWaitManualReset(event) == event

\* fence_event is an auto-reset event (CreateEvent(nullptr, FALSE, FALSE,
\* nullptr)): a satisfied wait resets it
EventAfterWait(event) == FALSE

\* WaitForSingleObject(fence_event, INFINITE): returns once the event is
\* signalled and resets it (auto-reset event).
WaitForSingleObject ==
    /\ pc = "wait"
    /\ fence_event
    /\ fence_event' = EventAfterWait(fence_event)
    /\ pc' = "advance_fence"
    /\ UNCHANGED << objects, creation_failed >>
    /\ UNCHANGED device_vars
    /\ UNCHANGED rtv_vars
    /\ UNCHANGED shader_data_vars
    /\ UNCHANGED window_vars
    /\ UNCHANGED buffer_vars
    /\ UNCHANGED setup_vars
    /\ UNCHANGED << command_list, fences, fence_values, event_waits, gpu_queue,
                    image_state, gpu_garbage, signalled, frames >>

\* The counters of a loop that advanced every slot's counter
IncrementEverySlot(values, fi) == [i \in DOMAIN values |-> values[i] + 1]

\* fence_values[fi]++
Increment(values, fi) == [values EXCEPT ![fi] = @ + 1]

\* fence_values[frame_index]++;
AdvanceFenceValue ==
    /\ pc = "advance_fence"
    /\ fence_values' = Increment(fence_values, frame_index)
    /\ pc' = "query_index"
    /\ UNCHANGED << objects, creation_failed >>
    /\ UNCHANGED device_vars
    /\ UNCHANGED rtv_vars
    /\ UNCHANGED shader_data_vars
    /\ UNCHANGED window_vars
    /\ UNCHANGED buffer_vars
    /\ UNCHANGED setup_vars
    /\ UNCHANGED << command_list, fences, fence_event, event_waits, gpu_queue,
                    image_state, gpu_garbage, signalled, frames >>

\* frame_index = swapchain->GetCurrentBackBufferIndex(); glfwPollEvents();
\* glfwSwapBuffers(window);
\* The index as a loop that counted the images round-robin would compute it
NextFrameIndexRoundRobin(current, reported) == (current + 1) % backbuffer_count

\* The index the loop records the next frame for: the one
\* GetCurrentBackBufferIndex reported
NextFrameIndex(current, reported) == reported

QueryBackBufferIndex ==
    /\ pc = "query_index"
    /\ frame_index' = NextFrameIndex(frame_index, back_buffer)
    /\ \E close_requested \in BOOLEAN :
        window_should_close' =
            (window_should_close \/ close_requested \/ frames >= MaxFrames)
    /\ pc' = "reset_allocator"
    /\ UNCHANGED << objects, creation_failed, failed_call >>
    /\ UNCHANGED device_vars
    /\ UNCHANGED rtv_vars
    /\ UNCHANGED shader_data_vars
    /\ UNCHANGED buffer_vars
    /\ UNCHANGED << swapchain, back_buffer, root_signature, pipeline_state,
                    vs_size, ps_size, diag >>
    /\ UNCHANGED loop_vars

\* throw_if_failed(command_allocator->Reset());
\* The allocator's memory is recycled: a list still waiting in the queue
\* no longer owns the commands it was recorded with.
ResetCommandAllocator ==
    /\ pc = "reset_allocator"
    /\ \E ok \in BOOLEAN :
        /\ pc' = throw_if_failed(ok, "reset_list")
        /\ failed_call' = FirstFailure(ok, "command_allocator->Reset")
        /\ gpu_queue' = IF ok
                        THEN [k \in DOMAIN gpu_queue |->
                                IF gpu_queue[k].op = "exec"
                                THEN [gpu_queue[k] EXCEPT !.valid = FALSE]
                                ELSE gpu_queue[k]]
                        ELSE gpu_queue
    /\ UNCHANGED << objects, creation_failed, window_should_close >>
    /\ UNCHANGED device_vars
    /\ UNCHANGED rtv_vars
    /\ UNCHANGED shader_data_vars
    /\ UNCHANGED buffer_vars
    /\ UNCHANGED setup_vars
    /\ UNCHANGED << command_list, fences, fence_values, fence_event,
                    event_waits, image_state, gpu_garbage, signalled, frames >>

\* A Reset that reopened the list without discarding its commands
ResetListKeepingCommands(list) == [list EXCEPT !.state = "open"]

\* ID3D12GraphicsCommandList::Reset: the list is open again and empty
ResetList(list) == [list EXCEPT !.cmds = << >>, !.state = "open"]

\* throw_if_failed(command_list->Reset(command_allocator, pipeline_state));
ResetCommandList ==
    /\ pc = "reset_list"
    /\ \E ok \in BOOLEAN :
        /\ pc' = throw_if_failed(ok, "loop_cond")
        /\ failed_call' = FirstFailure(ok, "command_list->Reset")
        /\ command_list' = IF ok THEN ResetList(command_list) ELSE command_list
    /\ UNCHANGED << objects, creation_failed, window_should_close >>
    /\ UNCHANGED device_vars
    /\ UNCHANGED rtv_vars
    /\ UNCHANGED shader_data_vars
    /\ UNCHANGED buffer_vars
    /\ UNCHANGED setup_vars
    /\ UNCHANGED << fences, fence_values, fence_event, event_waits, gpu_queue,
                    image_state, gpu_garbage, signalled, frames >>

\* ------------------------------------------------------------------- GPU
Running == pc \notin {"done", "aborted"}

RECURSIVE ExecuteList(_, _)
\* Image states after the GPU has run the commands in order
ExecuteList(cmds, st) ==
    IF cmds = << >> THEN st
    ELSE LET c == Head(cmds) IN
         ExecuteList(Tail(cmds),
                     IF CmdName(c) = "ResourceBarrier"
                     THEN [st EXCEPT ![CmdTarget(c)] = CmdAfter(c)]
                     ELSE st)

\* The GPU runs the command list at the head of the queue and retires it.
\* A list whose allocator was reset while it waited is read from recycled
\* memory: the GPU sees the old commands, nothing it can run, or the
\* commands main() has recorded into that memory since the Reset.
GpuExecute ==
    /\ Running
    /\ gpu_queue # << >>
    /\ Head(gpu_queue).op = "exec"
    /\ LET item == Head(gpu_queue) IN
       \/ /\ image_state' = ExecuteList(item.cmds, image_state)
          /\ UNCHANGED gpu_garbage
       \/ /\ ~item.valid
          /\ gpu_garbage' = TRUE
          /\ UNCHANGED image_state
       \/ /\ ~item.valid
          /\ gpu_garbage' = TRUE
          /\ image_state' = ExecuteList(command_list.cmds, image_state)
    /\ gpu_queue' = Tail(gpu_queue)
    /\ UNCHANGED << pc, objects, creation_failed >>
    /\ UNCHANGED device_vars
    /\ UNCHANGED rtv_vars
    /\ UNCHANGED shader_data_vars
    /\ UNCHANGED window_vars
    /\ UNCHANGED buffer_vars
    /\ UNCHANGED setup_vars
    /\ UNCHANGED << command_list, fences, fence_values, fence_event,
                    event_waits, signalled, frames >>

\* The queue reaches a queued Present and flips the image.
GpuPresent ==
    /\ Running
    /\ gpu_queue # << >>
    /\ Head(gpu_queue).op = "present"
    /\ gpu_queue' = Tail(gpu_queue)
    /\ UNCHANGED << pc, objects, creation_failed >>
    /\ UNCHANGED device_vars
    /\ UNCHANGED rtv_vars
    /\ UNCHANGED shader_data_vars
    /\ UNCHANGED window_vars
    /\ UNCHANGED buffer_vars
    /\ UNCHANGED setup_vars
    /\ UNCHANGED << command_list, fences, fence_values, fence_event,
                    event_waits, image_state, gpu_garbage, signalled, frames >>

\* A fence that reached a value without telling the events registered on it
FiredNone(waits, slot, value) == { w \in waits : FALSE }

\* The registrations (SetEventOnCompletion) a fence satisfies on reaching a value
Fired(waits, slot, value) ==
    { w \in waits : w.fence = slot /\ w.value <= value }

\* The queue reaches a Signal: the fence takes the value and every
\* registration it satisfies fires the event.
GpuSignal ==
    /\ Running
    /\ gpu_queue # << >>
    /\ Head(gpu_queue).op = "signal"
    /\ LET item == Head(gpu_queue)
           fired == Fired(event_waits, item.slot, item.value)
       IN /\ fences' = [fences EXCEPT ![item.slot] = item.value]
          /\ event_waits' = event_waits \ fired
          /\ fence_event' = IF fired # {} THEN TRUE ELSE fence_event
    /\ gpu_queue' = Tail(gpu_queue)
    /\ UNCHANGED << pc, objects, creation_failed >>
    /\ UNCHANGED device_vars
    /\ UNCHANGED rtv_vars
    /\ UNCHANGED shader_data_vars
    /\ UNCHANGED window_vars
    /\ UNCHANGED buffer_vars
    /\ UNCHANGED setup_vars
    /\ UNCHANGED << command_list, fence_values, image_state, gpu_garbage,
                    signalled, frames >>

\* ------------------------------------------------------------ behaviours
Setup ==
    \/ EnumAdapters1
    \/ ExamineAdapter
    \/ CheckDevice
    \/ CreateCommandQueue
    \/ CreateCommandAllocator
    \/ CreateFences
    \/ CreateSwapchain
    \/ GetCurrentBackBufferIndex
    \/ CreateRtvHeap
    \/ CreateRtvs
    \/ CreateRootSignature
    \/ UploadVertexBuffer
    \/ UploadIndexBuffer
    \/ CreateConstBufferHeap
    \/ UploadConstBuffer
    \/ ReadVertexShader
    \/ ReadPixelShader
    \/ CreateGraphicsPipelineState
    \/ CreateCommandList

FrameLoop ==
    \/ LoopCondition
    \/ RecordBindings
    \/ RecordRenderTargetBarrier
    \/ RecordRasterCommands
    \/ RecordDraw
    \/ RecordPresentBarrier
    \/ CloseCommandList
    \/ ExecuteCommandLists
    \/ Present
    \/ Signal
    \/ CheckFence
    \/ SetEventOnCompletion
    \/ WaitForSingleObject
    \/ AdvanceFenceValue
    \/ QueryBackBufferIndex
    \/ ResetCommandAllocator
    \/ ResetCommandList

Gpu ==
    \/ GpuExecute
    \/ GpuPresent
    \/ GpuSignal

Next == Setup \/ FrameLoop \/ Gpu

Spec == Init /\ [][Next]_vars

\* The CPU thread keeps running and the GPU keeps consuming its queue.
FairSpec == Spec /\ WF_vars(Setup \/ FrameLoop) /\ WF_vars(Gpu)

\* A machine whose only adapter is a capable hardware adapter
SingleAdapterInit == Init /\ adapters = << "capable" >>

\* The fair behaviours on such a machine
SingleAdapterFairSpec ==
    SingleAdapterInit /\ [][Next]_vars /\ WF_vars(Setup \/ FrameLoop) /\ WF_vars(Gpu)

TypeOK ==
    /\ adapter_index \in 0 .. MaxAdapters
    /\ device \in 0 .. MaxAdapters
    /\ frame_index \in Slots
    /\ back_buffer \in Slots
    /\ frames \in 0 .. MaxFrames
    /\ \A i \in Slots : fences[i] <= fence_values[i]
    /\ window_should_close \in BOOLEAN
    /\ \A b \in { vertex_buffer, index_buffer, const_buffer } :
        /\ Len(Contents(b)) = Width(b)
        /\ BytesCopied(b) <= Width(b)

\* ================================================================ claims
ExecItems == { k \in DOMAIN gpu_queue : gpu_queue[k].op = "exec" }

LoopPcs == { "loop_cond", "record_bind", "record_rt_barrier", "record_raster",
             "record_draw", "record_present_barrier", "close", "execute",
             "present", "signal", "check_fence", "set_event", "wait",
             "advance_fence", "query_index", "reset_allocator", "reset_list" }

\* C1: command_allocator->Reset() / command_list->Reset() for the next frame
\* is never reached while a command list submitted earlier from the single
\* allocator/command-list pair is still unretired on the GPU, on a slot's
\* first use as well as on later ones.
C1_NoResetWhileInFlight ==
    pc \in {"reset_allocator", "reset_list"} => ExecItems = {}

\* C2: per slot, the values passed to command_queue->Signal only increase
\* and none of them is 0, the value that means "never submitted".
C2_SignalValuesIncreaseFromOne ==
    \A i \in Slots : \A k \in DOMAIN signalled[i] :
        /\ signalled[i][k] > 0
        /\ k > 1 => signalled[i][k] > signalled[i][k - 1]

\* C3: the value signalled for slot i is last_value[i] + 1, where
\* last_value[i] is the value of the slot's previous signal and 0 when the
\* slot was never submitted: the signals of a slot carry 1, 2, 3, ...
C3_SignalIsLastValuePlusOne ==
    \A i \in Slots : \A k \in DOMAIN signalled[i] :
        signalled[i][k] = (IF k = 1 THEN 0 ELSE signalled[i][k - 1]) + 1

\* C4: for every slot, at most one submission made for that slot is in the
\* queue and not yet retired by the GPU.
C4_OneOutstandingSubmissionPerSlot ==
    \A i \in Slots :
        Cardinality({ k \in ExecItems : gpu_queue[k].slot = i }) <= 1

\* Positions of the commands of a list that satisfy a condition
Positions(cmds, P(_)) == { k \in DOMAIN cmds : P(cmds[k]) }

IsToRenderTarget(c) ==
    /\ CmdName(c) = "ResourceBarrier"
    /\ CmdBefore(c) = "PRESENT"
    /\ CmdAfter(c) = "RENDER_TARGET"

IsToPresent(c) ==
    /\ CmdName(c) = "ResourceBarrier"
    /\ CmdBefore(c) = "RENDER_TARGET"
    /\ CmdAfter(c) = "PRESENT"

IsClear(c) == CmdName(c) = "ClearRenderTargetView"

IsDraw(c) == CmdName(c) = "DrawIndexedInstanced"

\* A fully recorded frame for swap image fi
FrameWellFormed(cmds, fi) ==
    /\ Cardinality(Positions(cmds, IsToRenderTarget)) = 1
    /\ Cardinality(Positions(cmds, IsToPresent)) = 1
    /\ Positions(cmds, IsClear) # {}
    /\ Positions(cmds, IsDraw) # {}
    /\ \A b \in Positions(cmds, IsToRenderTarget) :
         \A k \in Positions(cmds, IsClear) \cup Positions(cmds, IsDraw) : b < k
    /\ \A b \in Positions(cmds, IsToPresent) :
         \A k \in Positions(cmds, IsDraw) : k < b
    /\ \A k \in DOMAIN cmds : CmdTarget(cmds[k]) \in {-1, fi}

\* Positions of main() at which the frame's recording is complete and
\* frame_index is still the index it was recorded with
RecordedPcs == { "close", "execute", "present", "signal", "check_fence",
                 "set_event", "wait", "advance_fence", "query_index" }

\* C5: every recorded frame holds exactly one PRESENT -> RENDER_TARGET
\* transition before the clear and the draw and exactly one RENDER_TARGET ->
\* PRESENT transition after the draw (and so before Close and Present); both
\* name render_targets[frame_index] and no command names another swap image.
\* The same holds of every list handed to the queue.
C5_OneTransitionPairPerFrame ==
    /\ pc \in RecordedPcs => FrameWellFormed(command_list.cmds, frame_index)
    /\ \A k \in ExecItems : FrameWellFormed(gpu_queue[k].cmds, gpu_queue[k].slot)

\* A second frame, recorded for swap image 1, is complete and about to be
\* submitted while the previous frame's list is still in the queue.
C5_Witness ==
    /\ pc = "execute"
    /\ frames = 2
    /\ frame_index = 1
    /\ command_list.state = "closed"
    /\ ExecItems # {}

\* C6: whenever the enumeration holds a non-software adapter on which
\* device creation at feature level 12_0 succeeds, selection ends with the
\* device created on the first such adapter, whatever precedes it.
C6_SelectsFirstCapableAdapter ==
    FirstCapable(adapters) # 0 =>
        <>(/\ pc \notin {"enum_adapters", "examine_adapter"}
           /\ device = FirstCapable(adapters))

\* C7: the enumeration loop examines each adapter at most once (a software
\* adapter is skipped and the next index is examined).
C7_EachAdapterExaminedOnce ==
    \A k \in DOMAIN examined : examined[k] <= 1

\* C8: with no capable non-software adapter in the enumeration, startup
\* aborts, no GPU object is ever created and the frame loop is not entered.
C8_NoCapableAdapterAborts ==
    FirstCapable(adapters) = 0 =>
        /\ <>(pc = "aborted")
        /\ [](objects = {} /\ pc \notin LoopPcs)

\* C9: once a buffer, descriptor-heap, root-signature or pipeline-state
\* creation call has failed, the process has aborted at that call.
C9_CreationFailureAborts ==
    creation_failed # "none" => pc = "aborted"

\* C10: after read_file reported a missing or empty shader file, pipeline
\* construction is fatal: main() never gets past it, so no frame is
\* recorded or submitted.
C10_EmptyShaderIsFatal ==
    (pc \in LoopPcs \cup {"create_command_list", "done"})
        => (vs_size > 0 /\ ps_size > 0)

\* C11: GetCurrentBackBufferIndex, GetBuffer and the render-target-view
\* creation are reached only with a swapchain that was created and upgraded
\* to IDXGISwapChain3; a failed creation or upgrade aborts before them.
C11_NoUseOfMissingSwapchain ==
    pc \in {"get_index", "create_rtv_heap", "create_rtvs"} => swapchain = "valid"

\* C12: once a device call of the frame loop (Close, Present, Signal,
\* SetEventOnCompletion, allocator Reset, list Reset) has reported failure,
\* the loop has stopped at that call.
C12_FailedLoopCallStopsLoop ==
    failed_call # "none" => pc = "aborted"

\* The static buffers, each with the object it is declared to hold
StaticBuffers ==
    { << vertex_buffer, "triangle_verts" >>,
      << index_buffer, "triangle_indices" >>,
      << const_buffer, "const_buffer_data_struct" >> }

Uploaded(resource) == CopiedFrom(resource) # ""

\* C13: for each of the three static uploads the number of bytes copied
\* into the mapped resource equals the Width of that resource, and the bytes
\* are copied from the object the resource is declared to hold.
C13_CopyMatchesDestination ==
    \A b \in StaticBuffers :
        Uploaded(b[1]) => /\ BytesCopied(b[1]) = Width(b[1])
                          /\ CopiedFrom(b[1]) = b[2]

\* The bytes of a source object of the uploads
SourceBytes(name) ==
    CASE name = "triangle_verts" -> triangle_verts
      [] name = "triangle_indices" -> triangle_indices
      [] OTHER -> << >>

\* Reading the first len bytes of a resource back
ReadBack(resource, len) == SubSeq(Contents(resource), 1, len)

IsTriangleList(c) ==
    /\ CmdName(c) = "IASetPrimitiveTopology"
    /\ CmdArgs(c) = << "D3D_PRIMITIVE_TOPOLOGY_TRIANGLELIST" >>

IsVertexBinding(c) == CmdName(c) = "IASetVertexBuffers"

IsIndexBinding(c) == CmdName(c) = "IASetIndexBuffer"

\* The uint32_t stored at a byte offset (DXGI_FORMAT_R32_UINT)
uint32_at(bytes, offset) ==
    bytes[offset + 1] + 256 * bytes[offset + 2] + 65536 * bytes[offset + 3]
        + 16777216 * bytes[offset + 4]

\* The vertex numbers an indexed draw reads through the index buffer view
IndicesConsumed(args, resource) ==
    [k \in 1 .. args[1] |->
        uint32_at(Contents(resource), 4 * (args[3] + k - 1)) + args[4]]

\* The draw of a fully recorded frame
DrawWellFormed(cmds) ==
    /\ Cardinality(Positions(cmds, IsDraw)) = 1
    /\ \A d \in Positions(cmds, IsDraw) :
        /\ CmdArgs(cmds[d]) = << 3, 1, 0, 0, 0 >>
        /\ \E k \in Positions(cmds, IsTriangleList) : k < d
        /\ \E k \in Positions(cmds, IsVertexBinding) : k < d
        /\ \E k \in Positions(cmds, IsIndexBinding) : k < d
        /\ \E k \in Positions(cmds, IsToRenderTarget) : k < d
        /\ \A k \in Positions(cmds, IsToPresent) : d < k
        /\ IndicesConsumed(CmdArgs(cmds[d]), index_buffer) = << 0, 1, 2 >>

\* C15: each frame records exactly one draw, DrawIndexedInstanced(3, 1, 0,
\* 0, 0), after the triangle-list topology, the vertex buffer and the index
\* buffer are bound, after the transition of the image to RENDER_TARGET and
\* before its transition back; the indices it reads are 0, 1, 2.  The same
\* holds of every list handed to the queue.
C15_OneIndexedDrawPerFrame ==
    /\ pc \in RecordedPcs => DrawWellFormed(command_list.cmds)
    /\ \A k \in ExecItems : DrawWellFormed(gpu_queue[k].cmds)

\* The second frame's list is complete while the first frame's list is
\* still in the queue
C15_Witness ==
    /\ pc = "close"
    /\ frames = 2
    /\ ExecItems # {}
    /\ Positions(command_list.cmds, IsDraw) # {}

\* Positions of main() at which the frame's commands are being recorded
RecordingPcs == { "record_bind", "record_rt_barrier", "record_raster",
                  "record_draw", "record_present_barrier" }

\* C16: while an iteration records its commands, frame_index is the index
\* the swapchain reports as its current back buffer, whatever index each
\* Present made current.
C16_FrameIndexIsCurrentBackBuffer ==
    pc \in RecordingPcs => frame_index = back_buffer

\* The second iteration starts recording for image 0, the image the first
\* iteration rendered to as well: the swapchain did not go round-robin
C16_Witness ==
    /\ pc = "record_bind"
    /\ frames = 2
    /\ frame_index = 0
    /\ Len(signalled[0]) = 1

\* C17: under fairness of the GPU (and of the CPU's own steps) every
\* started iteration of the frame loop comes to its end, by reaching the
\* loop condition again or by a failed call's abort; and at every position of
\* the loop other than the fence wait the CPU can take its next step.
C17_IterationsFinish ==
    /\ [](pc \in (LoopPcs \ {"wait"}) => ENABLED FrameLoop)
    /\ (pc = "record_bind") ~> (pc \in {"loop_cond", "aborted"})

\* The CPU is blocked in WaitForSingleObject: the event is not signalled
\* and the slot's Signal is still in the queue
C17_Witness ==
    /\ pc = "wait"
    /\ ~fence_event
    /\ \E k \in DOMAIN gpu_queue :
        gpu_queue[k].op = "signal" /\ gpu_queue[k].slot = frame_index

\* C18: a check of the loop condition starts another iteration when the
\* window's close flag is false and leaves the loop when it is true; once
\* the loop is left main() stays finished: nothing is added to the command
\* list or to the queue, no fence is signalled or waited for, and the work
\* still in the queue is left there.
C18_LoopStopsOnShouldClose ==
    [][ /\ (pc = "loop_cond" /\ pc' # pc) =>
            pc' = (IF window_should_close THEN "done" ELSE "record_bind")
        /\ pc = "done" =>
            /\ pc' = "done"
            /\ UNCHANGED << command_list, gpu_queue, signalled, event_waits,
                            fence_event, fences, fence_values >> ]_vars

\* main() has left the loop after two frames with work still in the queue
C18_Witness ==
    /\ pc = "done"
    /\ window_should_close
    /\ frames = 2
    /\ gpu_queue # << >>

\* C19: no step taken while main() is in the frame loop creates or
\* releases an object: the set of live objects is the same after every
\* iteration.
C19_LoopCreatesNothing ==
    [][(pc \in LoopPcs) => (objects' = objects)]_vars

\* Three iterations are complete and every object of the setup is live
C19_Witness ==
    /\ pc = "loop_cond"
    /\ frames = 3
    /\ { "device", "command_list", "const_buffer", "swapchain" } \subseteq objects

\* C20: no step taken while main() is in the frame loop changes the
\* vertex, index or constant buffer: their contents stay those of loop entry.
C20_LoopWritesNoBuffer ==
    [][(pc \in LoopPcs) => UNCHANGED buffer_vars]_vars

\* Two iterations are complete and the three buffers hold their uploads
C20_Witness ==
    /\ pc = "loop_cond"
    /\ frames = 2
    /\ \A b \in StaticBuffers : Uploaded(b[1])

IsOnDescriptor(c) == CmdName(c) \in { "OMSetRenderTargets", "ClearRenderTargetView" }

IsBarrier(c) == CmdName(c) = "ResourceBarrier"

\* The frame recorded for index fi binds and clears descriptor fi, which
\* describes the image its barriers transition
DescriptorsMatch(cmds, fi) ==
    /\ \E k \in DOMAIN cmds : CmdName(cmds[k]) = "OMSetRenderTargets"
    /\ \E k \in DOMAIN cmds : CmdName(cmds[k]) = "ClearRenderTargetView"
    /\ \A k \in Positions(cmds, IsOnDescriptor) :
        /\ CmdArgs(cmds[k]) = << fi >>
        /\ \A b \in Positions(cmds, IsBarrier) :
            CmdTarget(cmds[b]) = CmdTarget(cmds[k])

\* C21: the render-target descriptor heap holds exactly backbuffer_count
\* descriptors; once the views are created descriptor i describes swap image
\* i; every frame binds and clears descriptor frame_index, whose image is the
\* one the frame's two barriers transition; frame_index < backbuffer_count.
C21_DescriptorPerImage ==
    /\ render_target_views # << >> => Len(render_target_views) = backbuffer_count
    /\ "render_targets" \in objects =>
        \A i \in 0 .. (backbuffer_count - 1) : render_target_views[i + 1] = i
    /\ frame_index < backbuffer_count
    /\ pc \in RecordedPcs => DescriptorsMatch(command_list.cmds, frame_index)
    /\ \A k \in ExecItems : DescriptorsMatch(gpu_queue[k].cmds, gpu_queue[k].slot)

\* A frame for swap image 1 has bound and cleared descriptor 1
C21_Witness ==
    /\ pc = "record_draw"
    /\ frame_index = 1
    /\ \E k \in Positions(command_list.cmds, IsOnDescriptor) :
        CmdArgs(command_list.cmds[k]) = << 1 >> /\ CmdTarget(command_list.cmds[k]) = 1

\* The operation main() put at the end of the queue in this step, "none"
\* if it queued nothing
Submitted ==
    IF pc' # pc /\ Len(gpu_queue') > Len(gpu_queue)
    THEN gpu_queue'[Len(gpu_queue')].op ELSE "none"

\* C22: the steps of an iteration follow one another in the order Close,
\* ExecuteCommandLists, Present, Signal, fence check, (event registration and
\* wait), counter advance, index re-query, each position leading to the next
\* only; the queue receives the list at ExecuteCommandLists, the present at
\* Present and the signal, on the fence of frame_index, at Signal and at no
\* other step; fence_values changes only in the advance step that follows
\* the fence check, frame_index only in the re-query that follows it.
C22_SubmissionOrder ==
    [][ /\ (pc = "close" /\ pc' # pc) =>
            /\ pc' \in {"execute", "aborted"}
            /\ pc' = "execute" => command_list'.state = "closed"
        /\ (pc = "execute" /\ pc' # pc) => (pc' = "present" /\ Submitted = "exec")
        /\ (pc = "present" /\ pc' # pc) =>
            (pc' = "signal" /\ Submitted \in {"present", "none"})
        /\ (pc = "signal" /\ pc' # pc) =>
            /\ pc' \in {"check_fence", "aborted"}
            /\ pc' = "check_fence" =>
                /\ Submitted = "signal"
                /\ gpu_queue'[Len(gpu_queue')].slot = frame_index
        /\ (pc = "check_fence" /\ pc' # pc) => pc' \in {"set_event", "advance_fence"}
        /\ (pc = "set_event" /\ pc' # pc) => pc' \in {"wait", "aborted"}
        /\ (pc = "wait" /\ pc' # pc) => pc' = "advance_fence"
        /\ (pc = "advance_fence" /\ pc' # pc) => pc' = "query_index"
        /\ Submitted # "none" => pc \in {"execute", "present", "signal"}
        /\ fence_values' # fence_values => pc = "advance_fence"
        /\ (frame_index' # frame_index /\ pc \in LoopPcs) => pc = "query_index" ]_vars

\* The second iteration has submitted, presented and signalled and is about
\* to advance the counter of its slot
C22_Witness ==
    /\ pc = "advance_fence"
    /\ frames = 2
    /\ signalled[frame_index] # << >>
    /\ \E k \in DOMAIN gpu_queue : gpu_queue[k].op = "present"

\* The value of the latest command_queue->Signal on slot i
LastSignalled(i) == signalled[i][Len(signalled[i])]

\* Positions of main() between the fence wait and the next recording
AfterFencePcs == { "advance_fence", "query_index", "reset_allocator", "reset_list" }

\* C23: after a Signal on slot i with value v, the fence check sends the
\* CPU to the event registration exactly when the completed value of
\* fences[i] is below v; a CPU in the wait has the event registered for v on
\* that fence (or the event is already signalled); and the counter advance,
\* the index re-query and the two Resets are reached only with the completed
\* value of every signalled fence at or above its latest signalled value.
C23_FenceReachedBeforeReuse ==
    /\ [](pc \in AfterFencePcs =>
            \A i \in Slots : signalled[i] # << >> => fences[i] >= LastSignalled(i))
    /\ [](pc = "wait" =>
            \/ fence_event
            \/ [fence |-> frame_index, value |-> LastSignalled(frame_index)]
                    \in event_waits)
    /\ [][(pc = "check_fence" /\ pc' # pc) =>
            pc' = (IF fences[frame_index] < LastSignalled(frame_index)
                   THEN "set_event" ELSE "advance_fence")]_vars

\* The CPU has waited for value 1 of the slot's fence and is past the wait
C23_Witness ==
    /\ pc = "query_index"
    /\ LastSignalled(frame_index) = 1
    /\ fences[frame_index] = 1
    /\ Len(signalled[frame_index]) = 2

\* Positions of main() in the static upload blocks
UploadPcs == { "upload_vertex", "upload_index", "create_const_heap", "upload_const" }

\* The objects the frame loop uses
LoopObjects ==
    { "device", "command_queue", "command_allocator", "fences", "fence_event",
      "swapchain", "render_target_view_heap", "render_targets", "root_signature",
      "vertex_buffer", "index_buffer", "const_buffer_heap", "const_buffer",
      "pipeline_state", "command_list" }

CheckedCreationOrder ==
    << "device", "command_queue", "command_allocator", "fences",
       "render_target_view_heap", "render_targets", "vertex_buffer",
       "index_buffer", "const_buffer_heap", "const_buffer", "command_list" >>

RECURSIVE BarriersMatch(_, _)
\* Every barrier of the list, run in order from image states st, finds its
\* image in the barrier's StateBefore
BarriersMatch(cmds, st) ==
    IF cmds = << >> THEN TRUE
    ELSE LET c == Head(cmds) IN
         IF CmdName(c) = "ResourceBarrier"
         THEN /\ st[CmdTarget(c)] = CmdBefore(c)
              /\ BarriersMatch(Tail(cmds), [st EXCEPT ![CmdTarget(c)] = CmdAfter(c)])
         ELSE BarriersMatch(Tail(cmds), st)

\* The GPU takes the item at the head of the queue in this step
Retires(op) ==
    /\ gpu_queue # << >>
    /\ Head(gpu_queue).op = op
    /\ gpu_queue' = Tail(gpu_queue)

\* C25: the GPU runs every submitted list as it was recorded and each of
\* its barriers finds its image in the declared before-state; the image of a
\* Present is in the PRESENT state when the queue reaches that Present; and
\* whenever the queue is empty every swap image is in the PRESENT state.
C25_BarriersFindDeclaredState ==
    /\ [][ /\ Retires("exec") =>
                /\ BarriersMatch(Head(gpu_queue).cmds, image_state)
                /\ image_state' = ExecuteList(Head(gpu_queue).cmds, image_state)
           /\ Retires("present") =>
                image_state[Head(gpu_queue).slot] = "PRESENT" ]_vars
    /\ [](gpu_queue = << >> => \A i \in Slots : image_state[i] = "PRESENT")

\* C26: commands are recorded and Close is called only on an open list;
\* ExecuteCommandLists, the allocator's Reset and the list's Reset are called
\* only on a closed list; at every check of the loop condition, the one that
\* ends the loop included, the list is open and empty.
C26_OpenClosedProtocol ==
    /\ pc \in RecordingPcs \cup {"close"} => command_list.state = "open"
    /\ pc \in {"execute", "reset_allocator", "reset_list"} =>
            command_list.state = "closed"
    /\ pc \in {"loop_cond", "done"} =>
            (command_list.state = "open" /\ command_list.cmds = << >>)

\* The loop has ended after one complete iteration: the list was closed,
\* submitted and reset
C26_Witness ==
    /\ pc = "done"
    /\ frames = 1
    /\ command_list.state = "open"
    /\ signalled[0] \o signalled[1] # << >>

C28_CounterCountsUsesOfSlot ==
    /\ [](pc \in {"loop_cond", "record_bind"} =>
            \A i \in Slots : fence_values[i] = Len(signalled[i]))
    /\ [][(pc \in LoopPcs /\ pc' # pc) =>
            /\ fences' = fences
            /\ \A i \in Slots :
                fence_values'[i] =
                    (IF pc = "advance_fence" /\ i = frame_index
                     THEN fence_values[i] + 1 ELSE fence_values[i])]_vars

\* The third iteration starts after one iteration on each slot
C28_Witness ==
    /\ pc = "record_bind"
    /\ frames = 3
    /\ fence_values[0] = 1
    /\ fence_values[1] = 1

\* The files read_file is checked on: absent, or present with up to
\* MaxFileLen bytes
FilesChecked ==
    { << FALSE, << >> >> } \cup
    { << TRUE, bytes >> : bytes \in UNION { [1 .. n -> {0, 68, 255}] : n \in 0 .. MaxFileLen } }

\* What read_file has to return for a file
ReadFileContract(file) ==
    LET r == read_file(file) IN
    IF ~FileExists(file) \/ FileBytes(file) = << >>
    THEN r.size_bytes = 0 /\ r.data = NullData
    ELSE /\ r.size_bytes = Len(FileBytes(file))
         /\ r.size_bytes > 0
         /\ r.data = Buffer(FileBytes(file))

\* A (size, data) pair main() holds is (0, nullptr) or (n > 0, buffer of n bytes)
WellFormedBlob(size, data) ==
    \/ size = 0 /\ data = NullData
    \/ size > 0 /\ data[1] = "buffer" /\ Len(data[2]) = size

\* C29: read_file returns (0, nullptr) for a file that cannot be opened or
\* is empty and (the file's length > 0, a buffer holding exactly the file's
\* bytes) otherwise; the sizes and pointers main() holds for the two shaders
\* are never a non-zero size with nullptr nor a zero size with a buffer.
C29_ReadFileContract ==
    /\ pc = "read_vs" => \A file \in FilesChecked : ReadFileContract(file)
    /\ WellFormedBlob(vs_size, vs_data)
    /\ WellFormedBlob(ps_size, ps_data)

\* Both calls have returned: the vertex shader was read, the pixel shader
\* file was missing or empty
C29_Witness ==
    /\ pc = "create_pso"
    /\ vs_size > 0
    /\ vs_data # NullData
    /\ ps_size = 0
    /\ ps_data = NullData

\* The smallest multiple of 256 that is >= s
RoundedUp(s) == CHOOSE m \in { 256 * k : k \in 0 .. (s \div 256 + 1) } :
                    m >= s /\ \A n \in { 256 * k : k \in 0 .. (s \div 256 + 1) } :
                                  n >= s => m <= n

\* C30: for every payload size s in 0 .. MaxPayload the allocated size
\* (s | 0xFF) + 1 is s rounded up to a multiple of 256, so that a size that is
\* a multiple of 256 is not enlarged; the view's size is the resource's.
C30_AlignedSizeRoundsUp ==
    /\ pc = "upload_const" =>
        \A s \in 0 .. MaxPayload : AlignedSize(s) = RoundedUp(s)
    /\ Uploaded(const_buffer) => const_buffer_view_desc = Width(const_buffer)

\* C30 as amended: for every payload size s in 0 .. MaxPayload the
\* allocated size (s | 0xFF) + 1 is the smallest multiple of 256 greater than
\* s: it is s rounded up when s is not a multiple of 256 and s + 256 when it
\* is; the view's size is the resource's.
C30_AlignedSizeNextMultiple ==
    /\ pc = "upload_const" =>
        \A s \in 0 .. MaxPayload :
            /\ AlignedSize(s) % 256 = 0
            /\ AlignedSize(s) > s
            /\ AlignedSize(s) <= s + 256
            /\ AlignedSize(s) = (IF s % 256 = 0 THEN s + 256 ELSE RoundedUp(s))
    /\ Uploaded(const_buffer) => const_buffer_view_desc = Width(const_buffer)

\* The constant buffer and its view are created for the 12-byte struct
C30_Witness ==
    /\ pc = "read_vs"
    /\ Width(const_buffer) = 256
    /\ const_buffer_view_desc = 256

====
